---- MODULE Spec2Model ----
(***************************************************************************)
(* Model of the Keithley 2260B serial driver (src/Keithley_2260B_lib.py):  *)
(* the session object with its cached capability bounds, the foreground    *)
(* caller issuing get/set/power calls, the background sampling threads     *)
(* started by start_thread_power_supply_data, the RLock, the three sample  *)
(* series, the persisted file and the serial line to the instrument.       *)
(*                                                                         *)
(* Text on the wire: a command is the Python string the code builds        *)
(* ("VOLT " + str(v)); a reply line is the sequence of its comma-separated *)
(* fields, each a string, so that split(',') and float() are computed on   *)
(* the text and not assumed.                                               *)
(***************************************************************************)
EXTENDS Integers, Sequences, FiniteSets, TLC

\* ---------------------------------------------------------------- bounds
\* Arguments of the set_* calls range over 0..MaxVal.
MaxVal == 4
\* A sampling thread begins a new iteration only while fewer than MaxSamples
\* voltage samples are stored (the code's loop is unbounded).
MaxSamples == 2
\* At most MaxThreads Thread objects are started over a behaviour.
MaxThreads == 2
\* The foreground caller makes at most MaxCalls calls over a behaviour.
MaxCalls == 3

Vals == 0..MaxVal
Tids == 1..MaxThreads

\* ------------------------------------------------- text <-> number
\* str(x) of a Python int.
str(n) == ToString(n)

\* float(s) for one field of a reply: defined on the decimal literals the
\* instrument stub emits, a ValueError otherwise.
Literals == 0..9
IsFloat(s) == \E n \in Literals : str(n) = s
float(s) == CHOOSE n \in Literals : str(n) = s

\* float(self.read()): the whole line must be one numeric field ("1,2" and
\* the identity string raise ValueError).
IsFloatLine(line) == Len(line) = 1 /\ IsFloat(line[1])

\* ------------------------------------------------- the instrument
\* The setting query `base`, with its MIN and MAX variants.
Limits(base, lo, hi, cur) ==
    (base :> cur) @@ ((base \o " MIN") :> lo) @@ ((base \o " MAX") :> hi)

\* What the instrument measures at its output.
Meas == ("MEAS:VOLT?" :> 1) @@ ("MEAS:CURR?" :> 2) @@ ("MEAS:POW?" :> 3)

\* Two instruments.  Both report an over-voltage range that starts below the
\* over-current range (as the 2260B-30-108 does: 3 V and 5 A); the second
\* also has a rising current slew range wider than the falling one.
InstrumentA ==
    Limits("VOLT?", 0, 3, 1) @@ Limits("CURR?", 0, 4, 2) @@
    Limits("RES?", 0, 2, 0) @@
    Limits("CURR:PROT?", 2, 4, 3) @@ Limits("VOLT:PROT?", 1, 4, 3) @@
    Limits("CURR:SLEW:RIS?", 0, 3, 1) @@ Limits("CURR:SLEW:FALL?", 0, 3, 1) @@
    Limits("VOLT:SLEW:RIS?", 0, 3, 1) @@ Limits("VOLT:SLEW:FALL?", 0, 3, 1) @@
    Meas

InstrumentB ==
    Limits("VOLT?", 1, 4, 2) @@ Limits("CURR?", 0, 3, 1) @@
    Limits("RES?", 0, 3, 1) @@
    Limits("CURR:PROT?", 1, 3, 2) @@ Limits("VOLT:PROT?", 0, 4, 2) @@
    Limits("CURR:SLEW:RIS?", 0, 4, 1) @@ Limits("CURR:SLEW:FALL?", 1, 2, 1) @@
    Limits("VOLT:SLEW:RIS?", 1, 4, 2) @@ Limits("VOLT:SLEW:FALL?", 0, 2, 1) @@
    Meas

Instruments == {InstrumentA, InstrumentB}

\* The reply lines the instrument d may send to a command; none for a command
\* that is no query.  The identity is a line of several fields, none of them
\* a number.  The operating mode can be changed on the front panel,
\* so any of the four codes may come back; "4" stands for a code the driver
\* does not know.
DeviceReplies(d, string) ==
    IF string \in DOMAIN d THEN {<<str(d[string])>>}
    ELSE IF string = "SYST:INF?" THEN {<<"KEITHLEY", "2260B-30-108">>}
    ELSE IF string = "APPL?" THEN {<<str(d["VOLT?"]), str(d["CURR?"])>>}
    ELSE IF string = "OUTP:MODE?" THEN {<<"0">>, <<"1">>, <<"2">>, <<"3">>, <<"4">>}
    ELSE {}

\* ---------------------------------------------------------------- state
VARIABLES
    dev,                    \* the instrument behind the serial port
    bounds,                 \* the cached capability bounds (self.max_voltage, ...)
    rx,                     \* reply lines on the serial line, not yet read
    lock,                   \* self.lock: 0 when free, else the owning thread
    reading_thread_active,  \* self.reading_thread_active
    ps_thread,              \* self.ps_thread: 0 is the Thread of __init__, never started
    started,                \* number of Thread objects started so far
    tpc,                    \* position of each sampling thread
    data_voltage, data_current, data_power,
    ps_data,                \* save_data's local ps_data, as far as filled
    file,                   \* contents of PS_data.csv: <<>> or three rows
    fgpc,                   \* position of the foreground caller
    call,                   \* the foreground call in progress, or the last one
    iters,                  \* iterations completed by the sampling threads
    stop_mark,              \* iters when the run flag was last cleared
    quiet,                  \* no foreground query was issued beside a live sampler
    ncalls                  \* calls made by the foreground caller so far

vars == <<dev, bounds, rx, lock, reading_thread_active, ps_thread, started, tpc,
          data_voltage, data_current, data_power, ps_data, file, fgpc, call,
          iters, stop_mark, quiet, ncalls>>

session == <<bounds, lock, reading_thread_active, ps_thread, started, tpc,
             data_voltage, data_current, data_power, ps_data, file>>

\* The record kept of a foreground call.
Call(op, arg) ==
    [op |-> op, arg |-> arg, sent |-> <<>>, warned |-> FALSE, reply |-> <<>>,
     ret |-> <<>>, str_mode |-> "", exc |-> ""]

\* get_<param>("MIN" | "MAX") as __init__ calls it on the instrument d: the
\* reply is parsed with float().
Queried(d, string) == float((CHOOSE line \in DeviceReplies(d, string) : TRUE)[1])

\* __init__: the bounds are read from the instrument, then the lock, the flag,
\* the (unstarted) thread and the three empty series are created.
Init ==
    /\ dev \in Instruments
    /\ bounds = [
         max_current |-> Queried(dev, "CURR? MAX"),
         min_current |-> Queried(dev, "CURR? MIN"),
         max_voltage |-> Queried(dev, "VOLT? MAX"),
         min_voltage |-> Queried(dev, "VOLT? MIN"),
         current_max_rising_slew_rate |-> Queried(dev, "CURR:SLEW:RIS? MAX"),
         current_min_rising_slew_rate |-> Queried(dev, "CURR:SLEW:RIS? MIN"),
         current_max_falling_slew_rate |-> Queried(dev, "CURR:SLEW:FALL? MAX"),
         current_min_falling_slew_rate |-> Queried(dev, "CURR:SLEW:FALL? MIN"),
         voltage_max_rising_slew_rate |-> Queried(dev, "VOLT:SLEW:RIS? MAX"),
         voltage_min_rising_slew_rate |-> Queried(dev, "VOLT:SLEW:RIS? MIN"),
         voltage_max_falling_slew_rate |-> Queried(dev, "VOLT:SLEW:FALL? MAX"),
         voltage_min_falling_slew_rate |-> Queried(dev, "VOLT:SLEW:FALL? MIN"),
         internal_resistance_min |-> Queried(dev, "RES? MIN"),
         internal_resistance_max |-> Queried(dev, "RES? MAX"),
         over_current_protection_min |-> Queried(dev, "CURR:PROT? MIN"),
         over_current_protection_max |-> Queried(dev, "CURR:PROT? MAX"),
         over_voltage_protection_min |-> Queried(dev, "VOLT:PROT? MIN"),
         over_voltage_protection_max |-> Queried(dev, "VOLT:PROT? MAX")]
    /\ rx = <<>>
    /\ lock = 0
    /\ reading_thread_active = FALSE
    /\ ps_thread = 0
    /\ started = 0
    /\ tpc = [t \in Tids |-> "new"]
    /\ data_current = <<>>
    /\ data_voltage = <<>>
    /\ data_power = <<>>
    /\ ps_data = <<>>
    /\ file = <<>>
    /\ fgpc = "idle"
    /\ call = Call("__init__", <<>>)
    /\ iters = 0
    /\ stop_mark = 0
    /\ quiet = TRUE
    /\ ncalls = 0

\* ------------------------------------------------------- the serial line
\* self.write(string) by `who` (0 is the foreground caller, t > 0 a sampling
\* thread): the command goes to the instrument, whose reply line (if the
\* command is a query) queues up behind the earlier ones.
write(who, string) ==
    \/ /\ DeviceReplies(dev, string) = {}
       /\ rx' = rx
    \/ \E line \in DeviceReplies(dev, string) :
          rx' = Append(rx, [line |-> line, by |-> who, q |-> string])

\* A sampling thread that has been started and has not ended.
Alive(t) == tpc[t] \notin {"new", "done", "dead"}

\* The foreground caller, between two calls, makes its next one.
begin ==
    /\ fgpc = "idle"
    /\ ncalls < MaxCalls
    /\ ncalls' = ncalls + 1

\* ------------------------------------------------------- set operations
\* The common shape of the nine set_<param> methods: lo < value < hi, then
\* one write of prefix + str(value); else a warning and nothing written.
set_param(op, lo, hi, prefix, value) ==
    /\ begin
    /\ IF lo < value /\ value < hi
         THEN /\ write(0, prefix \o str(value))
              /\ call' = [Call(op, <<value>>) EXCEPT !.sent = <<prefix \o str(value)>>]
         ELSE /\ rx' = rx
              /\ call' = [Call(op, <<value>>) EXCEPT !.warned = TRUE]
    /\ UNCHANGED <<dev, session, fgpc, iters, stop_mark, quiet>>

set_internal_resistance(resistance) ==
    set_param("set_internal_resistance", bounds.internal_resistance_min,
              bounds.internal_resistance_max, "RES ", resistance)

set_current(current_value) ==
    set_param("set_current", bounds.min_current, bounds.max_current,
              "CURR ", current_value)

set_over_current_protection(over_current_protection) ==
    set_param("set_over_current_protection", bounds.over_current_protection_min,
              bounds.over_current_protection_max, "CURR:PROT ",
              over_current_protection)

set_rising_current_slew_rate(slew_rate) ==
    set_param("set_rising_current_slew_rate", bounds.current_min_rising_slew_rate,
              bounds.current_max_falling_slew_rate, "CURR:SLEW:RIS ", slew_rate)

set_over_voltage_protection(over_voltage_protection) ==
    set_param("set_over_voltage_protection", bounds.over_current_protection_min,
              bounds.over_voltage_protection_max, "VOLT:PROT ",
              over_voltage_protection)

set_falling_current_slew_rate(slew_rate) ==
    set_param("set_falling_current_slew_rate", bounds.current_min_falling_slew_rate,
              bounds.current_max_falling_slew_rate, "CURR:SLEW:FALL ", slew_rate)

set_voltage(voltage_value) ==
    set_param("set_voltage", bounds.min_voltage, bounds.max_voltage,
              "VOLT ", voltage_value)

set_rising_voltage_slew_rate(slew_rate) ==
    set_param("set_rising_voltage_slew_rate", bounds.voltage_min_rising_slew_rate,
              bounds.voltage_max_rising_slew_rate, "VOLT:SLEW:RIS ", slew_rate)

set_falling_voltage_slew_rate(slew_rate) ==
    set_param("set_falling_voltage_slew_rate", bounds.voltage_min_falling_slew_rate,
              bounds.voltage_max_falling_slew_rate, "VOLT:SLEW:FALL ", slew_rate)

\* The test of set_voltage_current weakened to one passing check (`or` for
\* `and`).
within_either(voltage, current) ==
    \/ bounds.min_voltage < voltage /\ voltage < bounds.max_voltage
    \/ bounds.min_current < current /\ current < bounds.max_current

\* The test of set_voltage_current: both bound checks must pass.
within_both(voltage, current) ==
    /\ bounds.min_voltage < voltage /\ voltage < bounds.max_voltage
    /\ bounds.min_current < current /\ current < bounds.max_current

\* set_voltage_current: the one APPL command, or a warning.
set_voltage_current(voltage, current) ==
    /\ begin
    /\ IF within_both(voltage, current)
         THEN /\ write(0, "APPL " \o str(voltage) \o "," \o str(current))
              /\ call' = [Call("set_voltage_current", <<voltage, current>>) EXCEPT
                            !.sent = <<"APPL " \o str(voltage) \o "," \o str(current)>>]
         ELSE /\ rx' = rx
              /\ call' = [Call("set_voltage_current", <<voltage, current>>) EXCEPT
                            !.warned = TRUE]
    /\ UNCHANGED <<dev, session, fgpc, iters, stop_mark, quiet>>

\* The strings a caller may pass as ps_mode.
ModeArgs == {"CVHS", "CCHS", "CVLS", "CCLS", "cvhs", "CV", ""}

\* The membership test made blind to case.
IsModeCode_upper(ps_mode) == ps_mode \in {"CVHS", "CCHS", "CVLS", "CCLS", "cvhs"}

\* ps_mode in ("CVHS", "CCHS", "CVLS", "CCLS")
IsModeCode(ps_mode) == ps_mode \in {"CVHS", "CCHS", "CVLS", "CCLS"}

set_power_supply_mode(ps_mode) ==
    /\ begin
    /\ IF IsModeCode(ps_mode)
         THEN /\ write(0, "OUTP:MODE " \o ps_mode)
              /\ call' = [Call("set_power_supply_mode", <<ps_mode>>) EXCEPT
                            !.sent = <<"OUTP:MODE " \o ps_mode>>]
         ELSE /\ rx' = rx
              /\ call' = [Call("set_power_supply_mode", <<ps_mode>>) EXCEPT
                            !.warned = TRUE]
    /\ UNCHANGED <<dev, session, fgpc, iters, stop_mark, quiet>>

\* power_supply_on, power_supply_off, abort: one unconditional write.
command(op, string) ==
    /\ begin
    /\ write(0, string)
    /\ call' = [Call(op, <<>>) EXCEPT !.sent = <<string>>]
    /\ UNCHANGED <<dev, session, fgpc, iters, stop_mark, quiet>>

abort == command("abort", "ABOR")
power_supply_on == command("power_supply_on", "OUTP 1")
power_supply_off == command("power_supply_off", "OUTP 0")

\* ------------------------------------------------------- queries
\* The foreground caller starts a query beside a live sampling thread.
Beside == \E t \in Tids : Alive(t)

\* None, "MIN", "MAX", or any other value of the min_max argument.
MinMax == {"None", "MIN", "MAX", "other"}

\* The common shape of the nine get_<param> methods: the if/elif chain writes
\* the query for None, "MIN" and "MAX" and nothing for any other min_max;
\* then float(self.read()).
get_param(op, base, min_max) ==
    /\ begin
    /\ IF min_max = "None"
         THEN /\ write(0, base)
              /\ call' = [Call(op, <<min_max>>) EXCEPT !.sent = <<base>>]
         ELSE IF min_max \in {"MIN", "MAX"}
         THEN /\ write(0, base \o " " \o min_max)
              /\ call' = [Call(op, <<min_max>>) EXCEPT !.sent = <<base \o " " \o min_max>>]
         ELSE /\ rx' = rx
              /\ call' = Call(op, <<min_max>>)
    /\ fgpc' = "float_read"
    /\ quiet' = (quiet /\ ~Beside)
    /\ UNCHANGED <<dev, session, iters, stop_mark>>

get_internal_resistance(min_max) == get_param("get_internal_resistance", "RES?", min_max)
get_current(min_max) == get_param("get_current", "CURR?", min_max)
get_over_current_protection(min_max) ==
    get_param("get_over_current_protection", "CURR:PROT?", min_max)
get_rising_current_slew_rate(min_max) ==
    get_param("get_rising_current_slew_rate", "CURR:SLEW:RIS?", min_max)
get_over_voltage_protection(min_max) ==
    get_param("get_over_voltage_protection", "VOLT:PROT?", min_max)
get_falling_current_slew_rate(min_max) ==
    get_param("get_falling_current_slew_rate", "CURR:SLEW:FALL?", min_max)
get_voltage(min_max) == get_param("get_voltage", "VOLT?", min_max)
get_rising_voltage_slew_rate(min_max) ==
    get_param("get_rising_voltage_slew_rate", "VOLT:SLEW:RIS?", min_max)
get_falling_voltage_slew_rate(min_max) ==
    get_param("get_falling_voltage_slew_rate", "VOLT:SLEW:FALL?", min_max)

\* measure_voltage, measure_current, measure_power called by the foreground:
\* the write; the read follows in float_read.
measure(op, string) ==
    /\ begin
    /\ write(0, string)
    /\ call' = [Call(op, <<>>) EXCEPT !.sent = <<string>>]
    /\ fgpc' = "float_read"
    /\ quiet' = (quiet /\ ~Beside)
    /\ UNCHANGED <<dev, session, iters, stop_mark>>

measure_current == measure("measure_current", "MEAS:CURR?")
measure_voltage == measure("measure_voltage", "MEAS:VOLT?")
measure_power == measure("measure_power", "MEAS:POW?")

\* return float(self.read()): blocks until a line is there, takes the oldest.
float_read ==
    /\ fgpc = "float_read"
    /\ rx # <<>>
    /\ rx' = Tail(rx)
    /\ call' = IF IsFloatLine(Head(rx).line)
                 THEN [call EXCEPT !.reply = Head(rx).line,
                                   !.ret = <<float(Head(rx).line[1])>>]
                 ELSE [call EXCEPT !.reply = Head(rx).line, !.exc = "ValueError"]
    /\ fgpc' = "idle"
    /\ UNCHANGED <<ncalls, dev, session, iters, stop_mark, quiet>>

\* get_voltage_current: the write of "APPL?".
get_voltage_current ==
    /\ begin
    /\ write(0, "APPL?")
    /\ call' = [Call("get_voltage_current", <<>>) EXCEPT !.sent = <<"APPL?">>]
    /\ fgpc' = "L201"
    /\ quiet' = (quiet /\ ~Beside)
    /\ UNCHANGED <<dev, session, iters, stop_mark>>

\* string = self.read().split(','); float(string[0]), float(string[1])
split_read ==
    /\ fgpc = "L201"
    /\ rx # <<>>
    /\ rx' = Tail(rx)
    /\ LET string == Head(rx).line IN
       call' = IF ~IsFloat(string[1])
                 THEN [call EXCEPT !.reply = string, !.exc = "ValueError"]
               ELSE IF Len(string) < 2
                 THEN [call EXCEPT !.reply = string, !.exc = "IndexError"]
               ELSE IF ~IsFloat(string[2])
                 THEN [call EXCEPT !.reply = string, !.exc = "ValueError"]
               ELSE [call EXCEPT !.reply = string,
                                 !.ret = <<float(string[1]), float(string[2])>>]
    /\ fgpc' = "idle"
    /\ UNCHANGED <<ncalls, dev, session, iters, stop_mark, quiet>>

\* get_power_supply_mode: str_mode = ""; the write of "OUTP:MODE?".
get_power_supply_mode ==
    /\ begin
    /\ write(0, "OUTP:MODE?")
    /\ call' = [Call("get_power_supply_mode", <<>>) EXCEPT !.sent = <<"OUTP:MODE?">>]
    /\ fgpc' = "L274"
    /\ quiet' = (quiet /\ ~Beside)
    /\ UNCHANGED <<dev, session, iters, stop_mark>>

\* The chain with the codes of CCHS and CVLS exchanged.
str_mode_wrong(ps_mode) ==
    IF ps_mode = <<"0">> THEN "CVHS"
    ELSE IF ps_mode = <<"1">> THEN "CVLS"
    ELSE IF ps_mode = <<"2">> THEN "CCHS"
    ELSE IF ps_mode = <<"3">> THEN "CCLS"
    ELSE ""

\* The if/elif chain on the reply text.
str_mode_of(ps_mode) ==
    IF ps_mode = <<"0">> THEN "CVHS"
    ELSE IF ps_mode = <<"1">> THEN "CCHS"
    ELSE IF ps_mode = <<"2">> THEN "CVLS"
    ELSE IF ps_mode = <<"3">> THEN "CCLS"
    ELSE ""

\* ps_mode = self.read(); ...; return str_mode
mode_read ==
    /\ fgpc = "L274"
    /\ rx # <<>>
    /\ rx' = Tail(rx)
    /\ call' = [call EXCEPT !.reply = Head(rx).line,
                            !.str_mode = str_mode_of(Head(rx).line)]
    /\ fgpc' = "idle"
    /\ UNCHANGED <<ncalls, dev, session, iters, stop_mark, quiet>>

\* ------------------------------------------------------- the sampler
\* The Thread created, flagged and started by start_thread_power_supply_data.
start_thread ==
    /\ reading_thread_active' = TRUE
    /\ ps_thread' = started + 1
    /\ started' = started + 1
    /\ tpc' = [tpc EXCEPT ![started + 1] = "L515"]

start_thread_power_supply_data ==
    /\ begin
    /\ started < MaxThreads
    /\ start_thread
    /\ call' = Call("start_thread_power_supply_data", <<>>)
    /\ UNCHANGED <<dev, bounds, rx, lock, data_voltage, data_current, data_power,
                   ps_data, file, fgpc, iters, stop_mark, quiet>>

\* start_power_supply: power_supply_on(), then the thread is started.
start_power_supply ==
    /\ begin
    /\ started < MaxThreads
    /\ write(0, "OUTP 1")
    /\ call' = [Call("start_power_supply", <<>>) EXCEPT !.sent = <<"OUTP 1">>]
    /\ fgpc' = "L545"
    /\ UNCHANGED <<dev, session, iters, stop_mark, quiet>>

start_power_supply_L545 ==
    /\ fgpc = "L545"
    /\ start_thread
    /\ fgpc' = "idle"
    /\ UNCHANGED <<ncalls, dev, bounds, rx, lock, data_voltage, data_current, data_power,
                   ps_data, file, call, iters, stop_mark, quiet>>

\* stop_thread_power_supply_data: the flag is cleared; the join follows.
stop_thread_power_supply_data ==
    /\ begin
    /\ reading_thread_active' = FALSE
    /\ stop_mark' = iters
    /\ call' = Call("stop_thread_power_supply_data", <<>>)
    /\ fgpc' = "L509"
    /\ UNCHANGED <<dev, bounds, rx, lock, ps_thread, started, tpc, data_voltage,
                   data_current, data_power, ps_data, file, iters, quiet>>

\* self.ps_thread.join(): a RuntimeError on the thread of __init__, which was
\* never started; else it returns once that thread has ended.  In
\* stop_power_supply, save_data() comes next.
join ==
    /\ fgpc = "L509"
    /\ IF ps_thread = 0
         THEN /\ call' = [call EXCEPT !.exc = "RuntimeError"]
              /\ fgpc' = "idle"
         ELSE /\ tpc[ps_thread] \in {"done", "dead"}
              /\ call' = call
              /\ fgpc' = IF call.op = "stop_power_supply" THEN "L532" ELSE "idle"
    /\ UNCHANGED <<ncalls, dev, session, rx, iters, stop_mark, quiet>>

\* stop_power_supply: power_supply_off(), then stop_thread_power_supply_data()
\* and save_data().
stop_power_supply ==
    /\ begin
    /\ write(0, "OUTP 0")
    /\ call' = [Call("stop_power_supply", <<>>) EXCEPT !.sent = <<"OUTP 0">>]
    /\ fgpc' = "L553"
    /\ UNCHANGED <<dev, session, iters, stop_mark, quiet>>

stop_power_supply_L553 ==
    /\ fgpc = "L553"
    /\ reading_thread_active' = FALSE
    /\ stop_mark' = iters
    /\ fgpc' = "L509"
    /\ UNCHANGED <<ncalls, dev, bounds, rx, lock, ps_thread, started, tpc, data_voltage,
                   data_current, data_power, ps_data, file, call, iters, quiet>>

\* save_data called by the foreground: ps_data = [[], [], []].
save_data ==
    /\ begin
    /\ call' = Call("save_data", <<>>)
    /\ fgpc' = "L532"
    /\ UNCHANGED <<dev, session, rx, iters, stop_mark, quiet>>

\* ps_data[0] = np.array(self.data_voltage)
save_data_L532 ==
    /\ fgpc = "L532"
    /\ ps_data' = <<data_voltage>>
    /\ fgpc' = "L533"
    /\ UNCHANGED <<ncalls, dev, bounds, rx, lock, reading_thread_active, ps_thread, started,
                   tpc, data_voltage, data_current, data_power, file, call, iters,
                   stop_mark, quiet>>

\* ps_data[1] = np.array(self.data_current)
save_data_L533 ==
    /\ fgpc = "L533"
    /\ ps_data' = Append(ps_data, data_current)
    /\ fgpc' = "L534"
    /\ UNCHANGED <<ncalls, dev, bounds, rx, lock, reading_thread_active, ps_thread, started,
                   tpc, data_voltage, data_current, data_power, file, call, iters,
                   stop_mark, quiet>>

\* What np.savetxt leaves in the file opened with 'w': the three rows, or
\* nothing when the rows differ in length (it raises on a ragged table, after
\* open() has truncated the file).
savetxt(rows) ==
    IF Len(rows[1]) = Len(rows[2]) /\ Len(rows[2]) = Len(rows[3]) THEN rows ELSE <<>>

\* ps_data[2] = np.array(self.data_power); open(...); np.savetxt(f, ps_data)
save_data_L534 ==
    /\ fgpc = "L534"
    /\ LET rows == Append(ps_data, data_power) IN
         /\ file' = savetxt(rows)
         /\ call' = IF savetxt(rows) = rows THEN call
                    ELSE [call EXCEPT !.exc = "ValueError"]
    /\ ps_data' = <<>>
    /\ fgpc' = "idle"
    /\ UNCHANGED <<ncalls, dev, bounds, rx, lock, reading_thread_active, ps_thread, started,
                   tpc, data_voltage, data_current, data_power, iters, stop_mark,
                   quiet>>

\* _read_power_supply_data, run by thread t.
\* while self.reading_thread_active:
loop_test(t) ==
    /\ tpc[t] = "L515"
    /\ IF reading_thread_active
         THEN /\ Len(data_voltage) < MaxSamples
              /\ tpc' = [tpc EXCEPT ![t] = "L516"]
         ELSE tpc' = [tpc EXCEPT ![t] = "done"]
    /\ UNCHANGED <<ncalls, dev, bounds, rx, lock, reading_thread_active, ps_thread, started,
                   data_voltage, data_current, data_power, ps_data, file, fgpc,
                   call, iters, stop_mark, quiet>>

\* self.lock.acquire()
acquire(t) ==
    /\ tpc[t] = "L516"
    /\ lock = 0
    /\ lock' = t
    /\ tpc' = [tpc EXCEPT ![t] = "L518"]
    /\ UNCHANGED <<ncalls, dev, bounds, rx, reading_thread_active, ps_thread, started,
                   data_voltage, data_current, data_power, ps_data, file, fgpc,
                   call, iters, stop_mark, quiet>>

\* The write of measure_voltage / measure_current / measure_power at line `at`.
sample_write(t, at, string) ==
    /\ tpc[t] = at
    /\ write(t, string)
    /\ tpc' = [tpc EXCEPT ![t] = at \o "r"]
    /\ UNCHANGED <<ncalls, dev, bounds, lock, reading_thread_active, ps_thread, started,
                   data_voltage, data_current, data_power, ps_data, file, fgpc,
                   call, iters, stop_mark, quiet>>

\* The appends with the power sample filed under the current series.
appended_misfiled(at, value) ==
    [v |-> IF at = "L518" THEN Append(data_voltage, value) ELSE data_voltage,
     c |-> IF at \in {"L519", "L520"} THEN Append(data_current, value) ELSE data_current,
     p |-> data_power]

\* The series after self.data_<x>.append(value) at line `at`.
appended(at, value) ==
    [v |-> IF at = "L518" THEN Append(data_voltage, value) ELSE data_voltage,
     c |-> IF at = "L519" THEN Append(data_current, value) ELSE data_current,
     p |-> IF at = "L520" THEN Append(data_power, value) ELSE data_power]

\* float(self.read()) of the measure call at line `at` and the append of its
\* result; a ValueError ends the thread where it stands, the lock still held.
sample_read(t, at, next) ==
    /\ tpc[t] = at \o "r"
    /\ rx # <<>>
    /\ rx' = Tail(rx)
    /\ IF IsFloatLine(Head(rx).line)
         THEN /\ data_voltage' = appended(at, float(Head(rx).line[1])).v
              /\ data_current' = appended(at, float(Head(rx).line[1])).c
              /\ data_power' = appended(at, float(Head(rx).line[1])).p
              /\ tpc' = [tpc EXCEPT ![t] = next]
         ELSE /\ UNCHANGED <<data_voltage, data_current, data_power>>
              /\ tpc' = [tpc EXCEPT ![t] = "dead"]
    /\ UNCHANGED <<ncalls, dev, bounds, lock, reading_thread_active, ps_thread, started,
                   ps_data, file, fgpc, call, iters, stop_mark, quiet>>

\* self.lock.release()
release(t) ==
    /\ tpc[t] = "L522"
    /\ lock' = 0
    /\ iters' = iters + 1
    /\ tpc' = [tpc EXCEPT ![t] = "L525"]
    /\ UNCHANGED <<ncalls, dev, bounds, rx, reading_thread_active, ps_thread, started,
                   data_voltage, data_current, data_power, ps_data, file, fgpc,
                   call, stop_mark, quiet>>

\* time.sleep(0.05)
sleep(t) ==
    /\ tpc[t] = "L525"
    /\ tpc' = [tpc EXCEPT ![t] = "L515"]
    /\ UNCHANGED <<ncalls, dev, bounds, rx, lock, reading_thread_active, ps_thread, started,
                   data_voltage, data_current, data_power, ps_data, file, fgpc,
                   call, iters, stop_mark, quiet>>

_read_power_supply_data(t) ==
    \/ loop_test(t)
    \/ acquire(t)
    \/ sample_write(t, "L518", "MEAS:VOLT?")
    \/ sample_read(t, "L518", "L519")
    \/ sample_write(t, "L519", "MEAS:CURR?")
    \/ sample_read(t, "L519", "L520")
    \/ sample_write(t, "L520", "MEAS:POW?")
    \/ sample_read(t, "L520", "L522")
    \/ release(t)
    \/ sleep(t)

\* ------------------------------------------------------- construction
\* The class attributes: what a bound reads as until __init__ has assigned it.
ClassDefaults ==
    [max_current |-> 0, min_current |-> 0, max_voltage |-> 0, min_voltage |-> 0,
     current_max_rising_slew_rate |-> 0, current_min_rising_slew_rate |-> 0,
     current_max_falling_slew_rate |-> 0, current_min_falling_slew_rate |-> 0,
     voltage_max_rising_slew_rate |-> 0, voltage_min_rising_slew_rate |-> 0,
     voltage_max_falling_slew_rate |-> 0, voltage_min_falling_slew_rate |-> 0,
     internal_resistance_min |-> 0, internal_resistance_max |-> 0,
     over_current_protection_min |-> 0, over_current_protection_max |-> 0,
     over_voltage_protection_min |-> 0, over_voltage_protection_max |-> 0]

\* One query of __init__: the line it stands on, the get method's base query,
\* its min_max argument and the attribute assigned.
Query(at, base, min_max, attr) ==
    [at |-> at, base |-> base, min_max |-> min_max, attr |-> attr]

\* __init__ with its last bound query left out.
InitQueries_short ==
    <<Query("L81", "SYST:INF?", "", ""),
      Query("L88", "CURR?", "MAX", "max_current"),
      Query("L89", "CURR?", "MIN", "min_current"),
      Query("L90", "VOLT?", "MAX", "max_voltage"),
      Query("L91", "VOLT?", "MIN", "min_voltage"),
      Query("L93", "CURR:SLEW:RIS?", "MAX", "current_max_rising_slew_rate"),
      Query("L94", "CURR:SLEW:RIS?", "MIN", "current_min_rising_slew_rate"),
      Query("L95", "CURR:SLEW:FALL?", "MAX", "current_max_falling_slew_rate"),
      Query("L96", "CURR:SLEW:FALL?", "MIN", "current_min_falling_slew_rate"),
      Query("L98", "VOLT:SLEW:RIS?", "MAX", "voltage_max_rising_slew_rate"),
      Query("L99", "VOLT:SLEW:RIS?", "MIN", "voltage_min_rising_slew_rate"),
      Query("L100", "VOLT:SLEW:FALL?", "MAX", "voltage_max_falling_slew_rate"),
      Query("L101", "VOLT:SLEW:FALL?", "MIN", "voltage_min_falling_slew_rate"),
      Query("L103", "RES?", "MIN", "internal_resistance_min"),
      Query("L104", "RES?", "MAX", "internal_resistance_max"),
      Query("L106", "CURR:PROT?", "MIN", "over_current_protection_min"),
      Query("L107", "CURR:PROT?", "MAX", "over_current_protection_max"),
      Query("L108", "VOLT:PROT?", "MIN", "over_voltage_protection_min")>>

\* The queries of __init__ in the order of its lines: get_power_supply_info(),
\* then the eighteen get_<param>("MAX" | "MIN") calls.
InitQueries ==
    <<Query("L81", "SYST:INF?", "", ""),
      Query("L88", "CURR?", "MAX", "max_current"),
      Query("L89", "CURR?", "MIN", "min_current"),
      Query("L90", "VOLT?", "MAX", "max_voltage"),
      Query("L91", "VOLT?", "MIN", "min_voltage"),
      Query("L93", "CURR:SLEW:RIS?", "MAX", "current_max_rising_slew_rate"),
      Query("L94", "CURR:SLEW:RIS?", "MIN", "current_min_rising_slew_rate"),
      Query("L95", "CURR:SLEW:FALL?", "MAX", "current_max_falling_slew_rate"),
      Query("L96", "CURR:SLEW:FALL?", "MIN", "current_min_falling_slew_rate"),
      Query("L98", "VOLT:SLEW:RIS?", "MAX", "voltage_max_rising_slew_rate"),
      Query("L99", "VOLT:SLEW:RIS?", "MIN", "voltage_min_rising_slew_rate"),
      Query("L100", "VOLT:SLEW:FALL?", "MAX", "voltage_max_falling_slew_rate"),
      Query("L101", "VOLT:SLEW:FALL?", "MIN", "voltage_min_falling_slew_rate"),
      Query("L103", "RES?", "MIN", "internal_resistance_min"),
      Query("L104", "RES?", "MAX", "internal_resistance_max"),
      Query("L106", "CURR:PROT?", "MIN", "over_current_protection_min"),
      Query("L107", "CURR:PROT?", "MAX", "over_current_protection_max"),
      Query("L108", "VOLT:PROT?", "MIN", "over_voltage_protection_min"),
      Query("L109", "VOLT:PROT?", "MAX", "over_voltage_protection_max")>>

\* The string a query of __init__ writes: the branch of the get method's
\* if/elif chain for "MIN" or "MAX"; get_power_supply_info writes its own.
QueryString(q) == IF q.min_max = "" THEN q.base ELSE q.base \o " " \o q.min_max

\* The serial port has been opened (line 78): nothing is assigned yet, and the
\* caller is inside __init__, about to query the identity.
Connect ==
    /\ dev \in Instruments
    /\ bounds = ClassDefaults
    /\ rx = <<>>
    /\ lock = 0
    /\ reading_thread_active = FALSE
    /\ ps_thread = 0
    /\ started = 0
    /\ tpc = [t \in Tids |-> "new"]
    /\ data_current = <<>>
    /\ data_voltage = <<>>
    /\ data_power = <<>>
    /\ ps_data = <<>>
    /\ file = <<>>
    /\ fgpc = InitQueries[1].at
    /\ call = Call("__init__", <<>>)
    /\ iters = 0
    /\ stop_mark = 0
    /\ quiet = TRUE
    /\ ncalls = 0

\* The write of the k-th query of __init__.
init_write(k) ==
    /\ fgpc = InitQueries[k].at
    /\ write(0, QueryString(InitQueries[k]))
    /\ call' = [call EXCEPT !.sent = Append(call.sent, QueryString(InitQueries[k]))]
    /\ fgpc' = InitQueries[k].at \o "r"
    /\ UNCHANGED <<ncalls, dev, session, iters, stop_mark, quiet>>

\* The read of the k-th query of __init__: the identity is kept as text, a
\* bound is parsed with float() and assigned; a ValueError leaves __init__.
\* After the last query come the lock, the flag, the thread and the series.
init_read(k) ==
    /\ fgpc = InitQueries[k].at \o "r"
    /\ rx # <<>>
    /\ rx' = Tail(rx)
    /\ IF InitQueries[k].attr = ""
         THEN /\ bounds' = bounds
              /\ call' = [call EXCEPT !.reply = Head(rx).line]
              /\ fgpc' = IF k < Len(InitQueries) THEN InitQueries[k + 1].at ELSE "L114"
         ELSE IF IsFloatLine(Head(rx).line)
         THEN /\ bounds' = [bounds EXCEPT ![InitQueries[k].attr] = float(Head(rx).line[1])]
              /\ call' = [call EXCEPT !.ret = Append(call.ret, float(Head(rx).line[1]))]
              /\ fgpc' = IF k < Len(InitQueries) THEN InitQueries[k + 1].at ELSE "L114"
         ELSE /\ bounds' = bounds
              /\ call' = [call EXCEPT !.exc = "ValueError"]
              /\ fgpc' = "raised"
    /\ UNCHANGED <<ncalls, dev, lock, reading_thread_active, ps_thread, started, tpc,
                   data_voltage, data_current, data_power, ps_data, file, iters,
                   stop_mark, quiet>>

\* The serial port fails under the k-th query (pyserial raises from write or
\* readline): the exception leaves __init__, and no object is returned.
init_fail(k) ==
    /\ fgpc \in {InitQueries[k].at, InitQueries[k].at \o "r"}
    /\ call' = [call EXCEPT !.exc = "SerialException"]
    /\ fgpc' = "raised"
    /\ UNCHANGED <<ncalls, dev, session, rx, iters, stop_mark, quiet>>

\* self.lock = RLock(); the flag; the Thread, not started; the empty series.
\* __init__ returns the session.
init_L114 ==
    /\ fgpc = "L114"
    /\ lock' = 0
    /\ reading_thread_active' = FALSE
    /\ ps_thread' = 0
    /\ data_current' = <<>>
    /\ data_voltage' = <<>>
    /\ data_power' = <<>>
    /\ fgpc' = "idle"
    /\ UNCHANGED <<ncalls, dev, bounds, rx, started, tpc, ps_data, file, call, iters,
                   stop_mark, quiet>>

__init__ ==
    \/ \E k \in 1..Len(InitQueries) : init_write(k)
    \/ \E k \in 1..Len(InitQueries) : init_read(k)
    \/ \E k \in 1..Len(InitQueries) : init_fail(k)
    \/ init_L114

\* ------------------------------------------------------- specifications
\* The command layer: every get/set/power call of the session, made from the
\* one foreground thread, the sampler never started.
Commands ==
    \/ \E v \in Vals : set_voltage(v)
    \/ \E v \in Vals : set_current(v)
    \/ \E v \in Vals : set_internal_resistance(v)
    \/ \E v \in Vals : set_over_current_protection(v)
    \/ \E v \in Vals : set_over_voltage_protection(v)
    \/ \E v \in Vals : set_rising_current_slew_rate(v)
    \/ \E v \in Vals : set_falling_current_slew_rate(v)
    \/ \E v \in Vals : set_rising_voltage_slew_rate(v)
    \/ \E v \in Vals : set_falling_voltage_slew_rate(v)
    \/ \E v \in Vals, i \in Vals : set_voltage_current(v, i)
    \/ \E m \in ModeArgs : set_power_supply_mode(m)
    \/ abort
    \/ power_supply_on
    \/ power_supply_off
    \/ \E m \in MinMax : get_voltage(m)
    \/ \E m \in MinMax : get_current(m)
    \/ \E m \in MinMax : get_internal_resistance(m)
    \/ \E m \in MinMax : get_over_current_protection(m)
    \/ \E m \in MinMax : get_over_voltage_protection(m)
    \/ \E m \in MinMax : get_rising_current_slew_rate(m)
    \/ \E m \in MinMax : get_falling_current_slew_rate(m)
    \/ \E m \in MinMax : get_rising_voltage_slew_rate(m)
    \/ \E m \in MinMax : get_falling_voltage_slew_rate(m)
    \/ measure_voltage
    \/ measure_current
    \/ measure_power
    \/ float_read
    \/ get_voltage_current
    \/ split_read
    \/ get_power_supply_mode
    \/ mode_read

SpecCmd == Init /\ [][Commands]_vars

\* The sampler and the foreground beside it: the start/stop/save calls, the
\* sampling threads, and foreground calls of each kind that uses the serial
\* line (a write with no reply, a numeric query, the two-field query, and a
\* get whose min_max matches no branch).
Next ==
    \/ start_thread_power_supply_data
    \/ start_power_supply
    \/ start_power_supply_L545
    \/ stop_thread_power_supply_data
    \/ join
    \/ stop_power_supply
    \/ stop_power_supply_L553
    \/ save_data
    \/ save_data_L532
    \/ save_data_L533
    \/ save_data_L534
    \/ \E t \in Tids : _read_power_supply_data(t)
    \/ power_supply_off
    \/ measure_voltage
    \/ \E m \in {"None", "other"} : get_voltage(m)
    \/ float_read
    \/ get_voltage_current
    \/ split_read

Spec == Init /\ [][Next]_vars

\* The session from the opening of the port on: __init__ step by step, then
\* the set commands and the sampler.
NextInit ==
    \/ __init__
    \/ \E v \in Vals : set_voltage(v)
    \/ \E v \in Vals : set_current(v)
    \/ \E v \in Vals : set_internal_resistance(v)
    \/ \E v \in Vals : set_over_current_protection(v)
    \/ \E v \in Vals : set_over_voltage_protection(v)
    \/ \E v \in Vals : set_rising_current_slew_rate(v)
    \/ \E v \in Vals : set_falling_current_slew_rate(v)
    \/ \E v \in Vals : set_rising_voltage_slew_rate(v)
    \/ \E v \in Vals : set_falling_voltage_slew_rate(v)
    \/ \E v \in Vals, i \in Vals : set_voltage_current(v, i)
    \/ start_thread_power_supply_data
    \/ \E t \in Tids : _read_power_supply_data(t)

SpecInit == Connect /\ [][NextInit]_vars

\* ---------------------------------------------------------------- claims
\* The nine bounded parameters: for each set_<param>, the cached bounds of
\* that same parameter and the prefix of its set command.
OwnBounds(op) ==
    CASE op = "set_voltage" ->
           <<bounds.min_voltage, bounds.max_voltage, "VOLT ">>
      [] op = "set_current" ->
           <<bounds.min_current, bounds.max_current, "CURR ">>
      [] op = "set_internal_resistance" ->
           <<bounds.internal_resistance_min, bounds.internal_resistance_max, "RES ">>
      [] op = "set_over_current_protection" ->
           <<bounds.over_current_protection_min, bounds.over_current_protection_max,
             "CURR:PROT ">>
      [] op = "set_over_voltage_protection" ->
           <<bounds.over_voltage_protection_min, bounds.over_voltage_protection_max,
             "VOLT:PROT ">>
      [] op = "set_rising_voltage_slew_rate" ->
           <<bounds.voltage_min_rising_slew_rate, bounds.voltage_max_rising_slew_rate,
             "VOLT:SLEW:RIS ">>
      [] op = "set_falling_voltage_slew_rate" ->
           <<bounds.voltage_min_falling_slew_rate, bounds.voltage_max_falling_slew_rate,
             "VOLT:SLEW:FALL ">>
      [] op = "set_rising_current_slew_rate" ->
           <<bounds.current_min_rising_slew_rate, bounds.current_max_rising_slew_rate,
             "CURR:SLEW:RIS ">>
      [] op = "set_falling_current_slew_rate" ->
           <<bounds.current_min_falling_slew_rate, bounds.current_max_falling_slew_rate,
             "CURR:SLEW:FALL ">>

SetOps ==
    {"set_voltage", "set_current", "set_internal_resistance",
     "set_over_current_protection", "set_over_voltage_protection",
     "set_rising_voltage_slew_rate", "set_falling_voltage_slew_rate",
     "set_rising_current_slew_rate", "set_falling_current_slew_rate"}

\* C1: for each of the nine bounded parameters P and every value v, set_P(v)
\* writes nothing when v <= min_P or v >= max_P and writes exactly the set
\* command of P carrying v when min_P < v < max_P, min_P and max_P being the
\* cached bounds of P itself.
C1_SetWritesIffInsideOwnBounds ==
    call.op \in SetOps =>
        LET v == call.arg[1]
            b == OwnBounds(call.op)
        IN  call.sent = IF b[1] < v /\ v < b[2] THEN <<b[3] \o str(v)>> ELSE <<>>

\* C2: set_voltage_current(v, i) writes the single command "APPL <v>,<i>" if
\* and only if min_voltage < v < max_voltage and min_current < i < max_current;
\* otherwise it writes nothing, and it never raises.
C2_ApplIffBothInside ==
    call.op = "set_voltage_current" =>
        LET v == call.arg[1]
            i == call.arg[2]
            both == /\ bounds.min_voltage < v /\ v < bounds.max_voltage
                    /\ bounds.min_current < i /\ i < bounds.max_current
        IN  /\ call.sent = IF both THEN <<"APPL " \o str(v) \o "," \o str(i)>> ELSE <<>>
            /\ call.warned = ~both
            /\ call.exc = ""
            /\ fgpc = "idle"

\* C2 witness: the voltage passes its check, the current fails its own, and
\* nothing was written.
C2_Witness ==
    /\ call.op = "set_voltage_current"
    /\ bounds.min_voltage < call.arg[1] /\ call.arg[1] < bounds.max_voltage
    /\ call.arg[2] >= bounds.max_current
    /\ call.sent = <<>>

\* C3: set_power_supply_mode(m) writes "OUTP:MODE <m>" if and only if m is one
\* of CVHS, CCHS, CVLS, CCLS; for any other input the call writes nothing,
\* warns, does not raise and leaves the session and the serial line as they
\* were.
C3_ModeWrittenIffCode ==
    [][(ncalls' # ncalls /\ call'.op = "set_power_supply_mode") =>
          LET m == call'.arg[1] IN
            IF m \in {"CVHS", "CCHS", "CVLS", "CCLS"}
              THEN /\ call'.sent = <<"OUTP:MODE " \o m>>
                   /\ ~call'.warned
              ELSE /\ call'.sent = <<>>
                   /\ call'.warned
                   /\ call'.exc = ""
                   /\ fgpc' = "idle"
                   /\ UNCHANGED <<session, rx>>]_vars

\* C3 witness: a lower-case mode string was passed and nothing was written.
C3_Witness ==
    /\ call.op = "set_power_supply_mode"
    /\ call.arg = <<"cvhs">>
    /\ call.sent = <<>>
    /\ call.warned

\* C4: on a fresh session, one start of the sampler followed by
\* stop_power_supply, with no foreground query beside the sampler, leaves the
\* three series with one length, the number N of iterations completed when the
\* flag was cleared or N + 1, each series holding its own quantity, and the
\* file holding exactly the voltage, current and power rows in that order.
C4_RoundTrip ==
    (call.op = "stop_power_supply" /\ fgpc = "idle" /\ started = 1 /\ quiet) =>
        /\ call.exc = ""
        /\ Len(data_voltage) = Len(data_current)
        /\ Len(data_current) = Len(data_power)
        /\ Len(data_power) = iters
        /\ iters \in {stop_mark, stop_mark + 1}
        /\ \A k \in 1..iters :
              /\ data_voltage[k] = dev["MEAS:VOLT?"]
              /\ data_current[k] = dev["MEAS:CURR?"]
              /\ data_power[k] = dev["MEAS:POW?"]
        /\ file = <<data_voltage, data_current, data_power>>

\* C4 witness: the stop found one iteration in flight, and the file holds the
\* N + 1 samples of each series.
C4_Witness ==
    /\ call.op = "stop_power_supply" /\ fgpc = "idle" /\ started = 1 /\ quiet
    /\ stop_mark >= 1
    /\ iters = stop_mark + 1
    /\ file = <<data_voltage, data_current, data_power>>
    /\ Len(file[3]) = stop_mark + 1

\* C5: in stop_power_supply the flag is cleared before the join and the series
\* are persisted only after the sampling has ended: the flag is down during
\* the join and the persistence, and no sample is appended to any series from
\* the first read of save_data on, until the foreground's next call.
C5_NoAppendOncePersisting ==
    [][(call.op = "stop_power_supply" /\ fgpc \in {"L509", "L532", "L533", "L534", "idle"}) =>
          /\ ~reading_thread_active
          /\ (fgpc \in {"L533", "L534", "idle"} /\ call'.op = "stop_power_supply") =>
                UNCHANGED <<data_voltage, data_current, data_power>>]_vars

\* C6: the series are empty when a new sampling run begins: at every start
\* made once the earlier runs have been stopped and have ended normally, with
\* no foreground query made beside them.
C6_SeriesEmptyAtRunStart ==
    [][(started' = started + 1 /\ quiet /\ \A t \in Tids : tpc[t] \in {"new", "done"}) =>
          /\ data_voltage' = <<>>
          /\ data_current' = <<>>
          /\ data_power' = <<>>]_vars

\* C7: a consumer never reads a series (the three reads of save_data) while a
\* sampling thread is between the first and the last append of one triple.
C7_NoReadInsideTriple ==
    [][(fgpc \in {"L532", "L533", "L534"} /\ fgpc' # fgpc) =>
          \A t \in Tids : tpc[t] \notin {"L519", "L519r", "L520", "L520r"}]_vars

\* The threads blocked in self.read(): the foreground (0) or a sampling thread.
Reading ==
    {w \in {0} : fgpc \in {"float_read", "L201", "L274"}}
    \cup {t \in Tids : tpc[t] \in {"L518r", "L519r", "L520r"}}

\* C8: strict request/response: whoever waits in read() has written the only
\* outstanding query, so that no two threads are between a write and its read,
\* and the line it will read is the reply to its own query.
C8_StrictRequestResponse ==
    /\ Cardinality(Reading) <= 1
    /\ \A w \in Reading : rx # <<>> => Head(rx).by = w

C10_LockOnlyInsideIteration ==
    \A t \in Tids :
        lock = t => tpc[t] \in {"L518", "L518r", "L519", "L519r", "L520", "L520r", "L522"}

\* C11: once the stop sequence has cleared the flag and waits in join(), the
\* sampling thread (the only one started) completes at most one further
\* iteration, and the wait can end: the joined thread has ended, or some
\* thread can still take a step towards its end.  A state in which the join
\* waits and nothing can move is a join that never returns.
C11_JoinReturns ==
    (fgpc = "L509" /\ started = 1) =>
        /\ ~reading_thread_active
        /\ iters <= stop_mark + 1
        /\ ENABLED Next

\* The MIN and MAX queries of the nine bounded parameters.
BoundQueries ==
    {base \o " " \o m :
        base \in {"CURR?", "VOLT?", "CURR:SLEW:RIS?", "CURR:SLEW:FALL?",
                  "VOLT:SLEW:RIS?", "VOLT:SLEW:FALL?", "RES?", "CURR:PROT?",
                  "VOLT:PROT?"},
        m \in {"MIN", "MAX"}}

\* Every cached bound holds what the instrument reports for it.
Populated ==
    /\ bounds.min_current = dev["CURR? MIN"]
    /\ bounds.max_current = dev["CURR? MAX"]
    /\ bounds.min_voltage = dev["VOLT? MIN"]
    /\ bounds.max_voltage = dev["VOLT? MAX"]
    /\ bounds.current_min_rising_slew_rate = dev["CURR:SLEW:RIS? MIN"]
    /\ bounds.current_max_rising_slew_rate = dev["CURR:SLEW:RIS? MAX"]
    /\ bounds.current_min_falling_slew_rate = dev["CURR:SLEW:FALL? MIN"]
    /\ bounds.current_max_falling_slew_rate = dev["CURR:SLEW:FALL? MAX"]
    /\ bounds.voltage_min_rising_slew_rate = dev["VOLT:SLEW:RIS? MIN"]
    /\ bounds.voltage_max_rising_slew_rate = dev["VOLT:SLEW:RIS? MAX"]
    /\ bounds.voltage_min_falling_slew_rate = dev["VOLT:SLEW:FALL? MIN"]
    /\ bounds.voltage_max_falling_slew_rate = dev["VOLT:SLEW:FALL? MAX"]
    /\ bounds.internal_resistance_min = dev["RES? MIN"]
    /\ bounds.internal_resistance_max = dev["RES? MAX"]
    /\ bounds.over_current_protection_min = dev["CURR:PROT? MIN"]
    /\ bounds.over_current_protection_max = dev["CURR:PROT? MAX"]
    /\ bounds.over_voltage_protection_min = dev["VOLT:PROT? MIN"]
    /\ bounds.over_voltage_protection_max = dev["VOLT:PROT? MAX"]

\* __init__ has returned the session and no call was made on it yet: the
\* identity was queried first, then each bound query once, every one of them
\* has returned its value, and no reply is outstanding.
Constructed ==
    /\ fgpc = "idle" /\ call.op = "__init__" /\ call.exc = ""
    /\ Len(call.sent) = Cardinality(BoundQueries) + 1
    /\ call.sent[1] = "SYST:INF?"
    /\ {call.sent[k] : k \in 2..Len(call.sent)} = BoundQueries
    /\ Len(call.ret) = Cardinality(BoundQueries)
    /\ rx = <<>>
    /\ Populated

\* C12: construction queries the identity first and then the MIN and MAX of
\* the nine bounded parameters; the first call on the session (so every set
\* command checked or written) and the start of the sampler come only once
\* every bound query has returned and every bound is populated; a failure of
\* a query leaves __init__ by an exception, after which nothing happens: no
\* session exists.
C12_BoundsBeforeUse ==
    /\ []((call.op = "__init__" /\ call.sent # <<>>) => call.sent[1] = "SYST:INF?")
    /\ []((fgpc = "idle" \/ call.op # "__init__" \/ started > 0) => Populated)
    /\ []((call.op = "__init__" /\ call.exc # "") => (fgpc = "raised" /\ started = 0))
    /\ [][/\ (call.op = "__init__" /\ (call'.op # "__init__" \/ started' # started))
               => Constructed
          /\ fgpc # "raised"]_vars

\* C12 witness: the first call on the session is a set command checked
\* against the bound populated last, and it was written.
C12_Witness ==
    /\ ncalls = 1
    /\ call.op = "set_over_voltage_protection"
    /\ call.sent # <<>>
    /\ bounds.over_voltage_protection_max = dev["VOLT:PROT? MAX"]
    /\ bounds.over_voltage_protection_max # 0

\* C13: whatever the sequence of start and stop calls, at most one sampling
\* thread is alive at any time, and once stop_thread_power_supply_data has
\* returned no sampling thread is alive (so that none appends a sample before
\* the next start).
C13_AtMostOneSampler ==
    /\ Cardinality({t \in Tids : Alive(t)}) <= 1
    /\ (call.op = "stop_thread_power_supply_data" /\ fgpc = "idle" /\ call.exc = "") =>
          \A t \in Tids : ~Alive(t)

\* The nine get_<param> methods.
GetOps ==
    {"get_voltage", "get_current", "get_internal_resistance",
     "get_over_current_protection", "get_over_voltage_protection",
     "get_rising_voltage_slew_rate", "get_falling_voltage_slew_rate",
     "get_rising_current_slew_rate", "get_falling_current_slew_rate"}

\* C14: every get_<param> call, whatever its min_max argument, has written
\* exactly one query when it waits in its blocking read and when it has
\* returned; no get operation reads without having written its own query.
C14_OneQueryBeforeRead ==
    call.op \in GetOps =>
        /\ Len(call.sent) = 1
        /\ fgpc = "float_read" => call.sent # <<>>
====
